---- MODULE Spec2Model ----
(***************************************************************************)
(* Model of server.py, the Hackathon MCP search server: the three search   *)
(* routes (/search, /news, /academic), the tool dispatcher /mcp/call_tool  *)
(* and the three text renderers.                                           *)
(*                                                                         *)
(* A Python str is modelled as a sequence of code points, each code point  *)
(* a one-element TLA+ string ("a", "\n", or "U+1F517" for an emoji), so    *)
(* len(), slicing, `in`, lower(), title() and concatenation are computed   *)
(* and not assumed.  A Python dict is a function whose DOMAIN is the set   *)
(* of keys present.                                                        *)
(***************************************************************************)
EXTENDS Integers, Sequences, FiniteSets, TLC

VARIABLES
    pc,          \* pc[r]: where request r stands (idle/dispatch/search/render/done)
    request,     \* request[r]: the route and body of the HTTP request as received
    search_req,  \* the validated request model (search_req / news_req / academic_req)
    ddgs,        \* the call made to the DuckDuckGo provider and what it gave back
    result,      \* what the search coroutine returned or raised
    response     \* response[r]: what the server answered to request r

vars == <<pc, request, search_req, ddgs, result, response>>

(***************************************************************************)
(* Bounds of the model.                                                    *)
(***************************************************************************)
\* the longest list the provider returns
MaxN == 11
\* length of the over-long title the provider catalog holds
LongTitleLen == 500
\* length of the over-long body the provider catalog holds
LongBodyLen == 450

(***************************************************************************)
(* String literals of server.py.                                           *)
(***************************************************************************)
WEB_SEARCH == <<"w", "e", "b", "_", "s", "e", "a", "r", "c", "h">>

NEWS_SEARCH == <<"n", "e", "w", "s", "_", "s", "e", "a", "r", "c", "h">>

ACADEMIC_SEARCH == <<"a", "c", "a", "d", "e", "m", "i", "c", "_", "s", "e", "a", "r", "c", "h">>

PAPERS == <<"p", "a", "p", "e", "r", "s">>

COURSES == <<"c", "o", "u", "r", "s", "e", "s">>

TUTORIALS == <<"t", "u", "t", "o", "r", "i", "a", "l", "s">>

GENERAL == <<"g", "e", "n", "e", "r", "a", "l">>

PAPERS_FILTER ==
    <<" ", "s", "i", "t", "e", ":", "a", "r", "x", "i", "v", ".", "o", "r", "g", " ", "O", "R",
      " ", "s", "i", "t", "e", ":", "s", "c", "h", "o", "l", "a", "r", ".", "g", "o", "o", "g",
      "l", "e", ".", "c", "o", "m", " ", "O", "R", " ", "f", "i", "l", "e", "t", "y", "p", "e",
      ":", "p", "d", "f">>

COURSES_FILTER ==
    <<" ", "s", "i", "t", "e", ":", "e", "d", "u", " ", "c", "o", "u", "r", "s", "e", " ", "O",
      "R", " ", "c", "u", "r", "r", "i", "c", "u", "l", "u", "m", " ", "O", "R", " ", "s", "y",
      "l", "l", "a", "b", "u", "s">>

TUTORIALS_FILTER ==
    <<" ", "t", "u", "t", "o", "r", "i", "a", "l", " ", "O", "R", " ", "g", "u", "i", "d", "e",
      " ", "O", "R", " ", "h", "o", "w", "-", "t", "o", " ", "s", "i", "t", "e", ":", "e", "d",
      "u">>

GENERAL_FILTER ==
    <<" ", "s", "i", "t", "e", ":", "e", "d", "u", " ", "O", "R", " ", "s", "i", "t", "e", ":",
      "a", "r", "x", "i", "v", ".", "o", "r", "g">>

NO_TITLE == <<"N", "o", " ", "T", "i", "t", "l", "e">>

NO_URL == <<"N", "o", " ", "U", "R", "L">>

NO_DESCRIPTION == <<"N", "o", " ", "d", "e", "s", "c", "r", "i", "p", "t", "i", "o", "n">>

NO_SUMMARY == <<"N", "o", " ", "s", "u", "m", "m", "a", "r", "y">>

UNKNOWN_SOURCE == <<"U", "n", "k", "n", "o", "w", "n", " ", "S", "o", "u", "r", "c", "e">>

NO_DATE == <<"N", "o", " ", "D", "a", "t", "e">>

ARXIV_ORG == <<"a", "r", "x", "i", "v", ".", "o", "r", "g">>

COURSE == <<"c", "o", "u", "r", "s", "e">>

SYLLABUS == <<"s", "y", "l", "l", "a", "b", "u", "s">>

TUTORIAL == <<"t", "u", "t", "o", "r", "i", "a", "l">>

GUIDE == <<"g", "u", "i", "d", "e">>

PAPER == <<"p", "a", "p", "e", "r">>

RESOURCE == <<"r", "e", "s", "o", "u", "r", "c", "e">>

SEARCH_ERROR == <<"S", "e", "a", "r", "c", "h", " ", "e", "r", "r", "o", "r", ":", " ">>

NEWS_SEARCH_ERROR ==
    <<"N", "e", "w", "s", " ", "s", "e", "a", "r", "c", "h", " ", "e", "r", "r", "o", "r", ":",
      " ">>

ACADEMIC_SEARCH_ERROR ==
    <<"A", "c", "a", "d", "e", "m", "i", "c", " ", "s", "e", "a", "r", "c", "h", " ", "e", "r",
      "r", "o", "r", ":", " ">>

UNKNOWN_TOOL == <<"U", "n", "k", "n", "o", "w", "n", " ", "t", "o", "o", "l", ":", " ">>

TOOL_EXECUTION_FAILED ==
    <<"T", "o", "o", "l", " ", "e", "x", "e", "c", "u", "t", "i", "o", "n", " ", "f", "a", "i",
      "l", "e", "d", ":", " ">>

NONE_STR == <<"N", "o", "n", "e">>

NO_RESULTS_FOUND_FOR ==
    <<"N", "o", " ", "r", "e", "s", "u", "l", "t", "s", " ", "f", "o", "u", "n", "d", " ", "f",
      "o", "r", " ", "'">>

TRY_DIFFERENT_KEYWORDS ==
    <<"'", ".", " ", "T", "r", "y", " ", "d", "i", "f", "f", "e", "r", "e", "n", "t", " ", "k",
      "e", "y", "w", "o", "r", "d", "s", ".">>

NO_RECENT_NEWS_FOUND_FOR ==
    <<"N", "o", " ", "r", "e", "c", "e", "n", "t", " ", "n", "e", "w", "s", " ", "f", "o", "u",
      "n", "d", " ", "f", "o", "r", " ", "'">>

NO_ACADEMIC_RESULTS_FOUND_FOR ==
    <<"N", "o", " ", "a", "c", "a", "d", "e", "m", "i", "c", " ", "r", "e", "s", "u", "l", "t",
      "s", " ", "f", "o", "u", "n", "d", " ", "f", "o", "r", " ", "'">>

TRY_BROADER_TERMS ==
    <<"'", ".", " ", "T", "r", "y", " ", "b", "r", "o", "a", "d", "e", "r", " ", "t", "e", "r",
      "m", "s", ".">>

SEARCH_RESULTS_FOR ==
    <<"*", "*", "S", "e", "a", "r", "c", "h", " ", "R", "e", "s", "u", "l", "t", "s", " ", "f",
      "o", "r", ":", " ">>

RECENT_NEWS == <<"*", "*", "R", "e", "c", "e", "n", "t", " ", "N", "e", "w", "s", ":", " ">>

ACADEMIC_SEARCH_HDR ==
    <<"*", "*", "A", "c", "a", "d", "e", "m", "i", "c", " ", "S", "e", "a", "r", "c", "h", ":",
      " ">>

HDR_OPEN == <<"*", "*", " ", "(">>

HDR_FOCUS == <<"*", "*", " ", "(", "F", "o", "c", "u", "s", ":", " ">>

RESULTS_CLOSE == <<" ", "r", "e", "s", "u", "l", "t", "s", ")", "\n">>

ARTICLES_CLOSE == <<" ", "a", "r", "t", "i", "c", "l", "e", "s", ")", "\n">>

COMMA_SP == <<",", " ">>

ENTRY_OPEN == <<"\n", "*", "*">>

DOT_SP == <<".", " ">>

ENTRY_LINK == <<"*", "*", "\n", "U+1F517", " ">>

ENTRY_DESC == <<"\n", "U+1F4DD", " ">>

ENTRY_NEWS_SOURCE == <<"*", "*", "\n", "U+1F4F0", " ">>

ENTRY_NEWS_DATE == <<" ", "|", " ", "U+1F4C5", " ">>

ENTRY_NEWS_LINK == <<"\n", "U+1F517", " ">>

ENTRY_NEWS_DESC == <<"\n", "U+1F4C4", " ">>

ENTRY_ACAD_LINK == <<" ", "|", " ", "U+1F517", " ">>

STARS_NL == <<"*", "*", "\n">>

NL == <<"\n">>

SP == <<" ">>

ICON_PAPER == <<"U+1F4CA">>

ICON_COURSE == <<"U+1F4DA">>

ICON_TUTORIAL == <<"U+1F3AF">>

ICON_RESOURCE == <<"U+1F4C4">>

UNKNOWN == <<"U", "n", "k", "n", "o", "w", "n">>

NO_DATE_LC == <<"N", "o", " ", "d", "a", "t", "e">>

RESOURCE_CAP == <<"R", "e", "s", "o", "u", "r", "c", "e">>

(***************************************************************************)
(* Python built-ins the handlers use.                                      *)
(***************************************************************************)
\* the None object (a value no str equals)
None == <<"<None>">>

Min(a, b) == IF a <= b THEN a ELSE b

\* d.get(k, default)
Get(d, k, default) == IF k \in DOMAIN d THEN d[k] ELSE default

\* s[:n] dropped: the whole string (a slice that was left out)
SliceNone(s, n) == s

\* s[:n]
Slice(s, n) == SubSeq(s, 1, Min(Len(s), n))

\* sub in s
Contains(sub, s) ==
    \E i \in 0..(Len(s) - Len(sub)) : SubSeq(s, i + 1, i + Len(sub)) = sub

LowerLetters == <<"a", "b", "c", "d", "e", "f", "g", "h", "i", "j", "k", "l", "m",
                  "n", "o", "p", "q", "r", "s", "t", "u", "v", "w", "x", "y", "z">>

UpperLetters == <<"A", "B", "C", "D", "E", "F", "G", "H", "I", "J", "K", "L", "M",
                  "N", "O", "P", "Q", "R", "S", "T", "U", "V", "W", "X", "Y", "Z">>

IsLower(c) == \E i \in 1..26 : LowerLetters[i] = c

IsUpper(c) == \E i \in 1..26 : UpperLetters[i] = c

LowerChar(c) ==
    IF IsUpper(c) THEN LowerLetters[CHOOSE i \in 1..26 : UpperLetters[i] = c] ELSE c

UpperChar(c) ==
    IF IsLower(c) THEN UpperLetters[CHOOSE i \in 1..26 : LowerLetters[i] = c] ELSE c

\* s.lower()
Lower(s) == [i \in 1..Len(s) |-> LowerChar(s[i])]

\* s.title(): a letter that follows a non-letter is upper-cased, every other lowered
Title(s) ==
    [i \in 1..Len(s) |->
        IF i = 1 \/ ~(IsLower(s[i - 1]) \/ IsUpper(s[i - 1]))
        THEN UpperChar(s[i]) ELSE LowerChar(s[i])]

Digits == <<"0", "1", "2", "3", "4", "5", "6", "7", "8", "9">>

\* str(n) of a non-negative int, as in an f-string
RECURSIVE Str(_)
Str(n) == IF n < 10 THEN <<Digits[n + 1]>> ELSE Str(n \div 10) \o <<Digits[(n % 10) + 1]>>

\* sep.join(parts)
RECURSIVE Join(_, _)
Join(sep, parts) ==
    IF parts = <<>> THEN <<>>
    ELSE IF Len(parts) = 1 THEN parts[1]
    ELSE parts[1] \o sep \o Join(sep, Tail(parts))

\* enumerate(xs, 0): the positions counted from zero
Enumerate0(xs) == [i \in 1..Len(xs) |-> [i |-> i - 1, item |-> xs[i]]]

\* enumerate(xs, 1)
Enumerate(xs) == [i \in 1..Len(xs) |-> [i |-> i, item |-> xs[i]]]

(***************************************************************************)
(* Program constants.                                                      *)
(***************************************************************************)
TITLE_MAX == 150
DESCRIPTION_MAX == 400
SEARCH_DEFAULT_MAX_RESULTS == 10
NEWS_DEFAULT_MAX_RESULTS == 8
ACADEMIC_DEFAULT_MAX_RESULTS == 10
TEXT_TOP == 10
HTTP_OK == 200
HTTP_INTERNAL_ERROR == 500

(***************************************************************************)
(* Exceptions and the outcome of a call: a value returned or an exception  *)
(* raised.                                                                 *)
(***************************************************************************)
NoException == [cls |-> "", status_code |-> 0, detail |-> <<>>]

Exception(cls, msg) == [cls |-> cls, status_code |-> 0, detail |-> msg]

HTTPException(status_code, detail) ==
    [cls |-> "HTTPException", status_code |-> status_code, detail |-> detail]

\* str(e): the message of an exception; "<status>: <detail>" for an HTTPException
StrExc(e) ==
    IF e.cls = "HTTPException" THEN Str(e.status_code) \o <<":", " ">> \o e.detail
    ELSE e.detail

Return(v) == [ok |-> TRUE, value |-> v, exc |-> NoException]

Raise(e) == [ok |-> FALSE, value |-> <<>>, exc |-> e]

\* the classes `except Exception` lets through: only those not derived from Exception
ExceptHTTPOnly(e) == e.cls = "HTTPException"

\* `except Exception as e`: every class raised here derives from Exception
ExceptException(e) ==
    e.cls \in {"HTTPException", "ValidationError", "TypeError", "DuckDuckGoSearchException"}

(***************************************************************************)
(* Request and response models (pydantic).  A JSON value handed to         *)
(* a request model is [mapping |-> is it a dict, items |-> its keys].      *)
(***************************************************************************)
ValidationError == Exception("ValidationError", <<"q", "u", "e", "r", "y">>)

TypeError == Exception("TypeError", <<"m", "a", "p", "p", "i", "n", "g">>)

Dict(items) == [mapping |-> TRUE, items |-> items]

EmptyDict == Dict(<<>>)

NotAMapping == [mapping |-> FALSE, items |-> <<>>]

Validate(arguments, model) ==
    IF ~arguments.mapping THEN Raise(TypeError)
    ELSE IF "query" \notin DOMAIN arguments.items THEN Raise(ValidationError)
    ELSE Return(model)

SearchRequest(arguments) ==
    Validate(arguments,
        [query |-> Get(arguments.items, "query", <<>>),
         max_results |-> Get(arguments.items, "max_results", SEARCH_DEFAULT_MAX_RESULTS)])

NewsRequest(arguments) ==
    Validate(arguments,
        [query |-> Get(arguments.items, "query", <<>>),
         max_results |-> Get(arguments.items, "max_results", NEWS_DEFAULT_MAX_RESULTS)])

AcademicRequest(arguments) ==
    Validate(arguments,
        [query |-> Get(arguments.items, "query", <<>>),
         focus |-> Get(arguments.items, "focus", GENERAL),
         max_results |-> Get(arguments.items, "max_results", ACADEMIC_DEFAULT_MAX_RESULTS)])

SearchResponse(results, total, query) ==
    [results |-> results, total |-> total, query |-> query]

(***************************************************************************)
(* web_search, news_search, academic_search: `provided` is what the        *)
(* provider call gave back (a list of raw results, or an exception).       *)
(***************************************************************************)
WebRecord(e) ==
    [rank |-> e.i,
     title |-> Slice(Get(e.item, "title", NO_TITLE), TITLE_MAX),
     url |-> Get(e.item, "href", NO_URL),
     description |-> Slice(Get(e.item, "body", NO_DESCRIPTION), DESCRIPTION_MAX),
     type |-> "web"]

web_search(req, provided) ==
    IF ~provided.ok
    THEN IF ExceptException(provided.exc)
         THEN Raise(HTTPException(HTTP_INTERNAL_ERROR, SEARCH_ERROR \o StrExc(provided.exc)))
         ELSE Raise(provided.exc)
    ELSE LET results == provided.value IN
         IF results = <<>>
         THEN Return(SearchResponse(<<>>, 0, req.query))
         ELSE LET formatted_results ==
                      [j \in 1..Len(results) |-> WebRecord(Enumerate(results)[j])]
              IN  Return(SearchResponse(formatted_results, Len(formatted_results), req.query))

NewsRecord(e) ==
    [rank |-> e.i,
     title |-> Slice(Get(e.item, "title", NO_TITLE), TITLE_MAX),
     url |-> Get(e.item, "url", NO_URL),
     description |-> Slice(Get(e.item, "body", NO_SUMMARY), DESCRIPTION_MAX),
     source |-> Get(e.item, "source", UNKNOWN_SOURCE),
     date |-> Get(e.item, "date", NO_DATE),
     type |-> "news"]

news_search(req, provided) ==
    IF ~provided.ok
    THEN IF ExceptException(provided.exc)
         THEN Raise(HTTPException(HTTP_INTERNAL_ERROR, NEWS_SEARCH_ERROR \o StrExc(provided.exc)))
         ELSE Raise(provided.exc)
    ELSE LET news_results == provided.value IN
         IF news_results = <<>>
         THEN Return(SearchResponse(<<>>, 0, req.query))
         ELSE LET formatted_results ==
                      [j \in 1..Len(news_results) |-> NewsRecord(Enumerate(news_results)[j])]
              IN  Return(SearchResponse(formatted_results, Len(formatted_results), req.query))

\* the filter appended twice (an augmentation applied to an already augmented query)
academic_query_twice(query, focus) ==
    IF focus = PAPERS THEN query \o PAPERS_FILTER \o PAPERS_FILTER
    ELSE IF focus = COURSES THEN query \o COURSES_FILTER \o COURSES_FILTER
    ELSE IF focus = TUTORIALS THEN query \o TUTORIALS_FILTER \o TUTORIALS_FILTER
    ELSE query \o GENERAL_FILTER \o GENERAL_FILTER

\* the query academic_search sends to the provider
academic_query(query, focus) ==
    IF focus = PAPERS THEN query \o PAPERS_FILTER
    ELSE IF focus = COURSES THEN query \o COURSES_FILTER
    ELSE IF focus = TUTORIALS THEN query \o TUTORIALS_FILTER
    ELSE query \o GENERAL_FILTER

\* the title tests made before the url test
content_type_title_first(item) ==
    LET url == Get(item, "href", NO_URL)
        title == Get(item, "title", NO_TITLE)
    IN  IF Contains(TUTORIAL, Lower(title)) \/ Contains(GUIDE, Lower(title)) THEN TUTORIAL
        ELSE IF Contains(COURSE, Lower(title))
                \/ Contains(SYLLABUS, Lower(Get(item, "body", <<>>))) THEN COURSE
        ELSE IF Contains(ARXIV_ORG, url) THEN PAPER
        ELSE RESOURCE

\* the content type academic_search detects for one raw result
content_type(item) ==
    LET url == Get(item, "href", NO_URL)
        title == Get(item, "title", NO_TITLE)
    IN  IF Contains(ARXIV_ORG, url) THEN PAPER
        ELSE IF Contains(COURSE, Lower(title))
                \/ Contains(SYLLABUS, Lower(Get(item, "body", <<>>))) THEN COURSE
        ELSE IF Contains(TUTORIAL, Lower(title)) \/ Contains(GUIDE, Lower(title)) THEN TUTORIAL
        ELSE RESOURCE

AcademicRecord(e, focus) ==
    [rank |-> e.i,
     title |-> Slice(Get(e.item, "title", NO_TITLE), TITLE_MAX),
     url |-> Get(e.item, "href", NO_URL),
     description |-> Slice(Get(e.item, "body", NO_DESCRIPTION), DESCRIPTION_MAX),
     content_type |-> content_type(e.item),
     focus |-> focus,
     type |-> "academic"]

academic_search(req, provided) ==
    IF ~provided.ok
    THEN IF ExceptException(provided.exc)
         THEN Raise(HTTPException(HTTP_INTERNAL_ERROR,
                                  ACADEMIC_SEARCH_ERROR \o StrExc(provided.exc)))
         ELSE Raise(provided.exc)
    ELSE LET results == provided.value IN
         IF results = <<>>
         THEN Return(SearchResponse(<<>>, 0, req.query))
         ELSE LET formatted_results ==
                      [j \in 1..Len(results) |->
                          AcademicRecord(Enumerate(results)[j], req.focus)]
              IN  Return(SearchResponse(formatted_results, Len(formatted_results), req.query))

\* the provider call each operation makes: ddgs.text(...) or ddgs.news(...)
DdgsCall(op, req) ==
    IF op = "news_search"
    THEN [kind |-> "news", query |-> req.query, max_results |-> req.max_results]
    ELSE IF op = "academic_search"
    THEN [kind |-> "text", query |-> academic_query(req.query, req.focus),
          max_results |-> req.max_results]
    ELSE [kind |-> "text", query |-> req.query, max_results |-> req.max_results]

(***************************************************************************)
(* The text renderers.                                                     *)
(***************************************************************************)
SearchEntry(r) ==
    ENTRY_OPEN \o Str(r.rank) \o DOT_SP \o r.title \o ENTRY_LINK \o r.url
        \o ENTRY_DESC \o r.description \o NL

\* the renderer without its empty-list guard
format_search_results_noguard(resp) ==
    Join(NL, <<SEARCH_RESULTS_FOR \o resp.query \o HDR_OPEN \o Str(resp.total) \o RESULTS_CLOSE>>
             \o [j \in 1..Min(Len(resp.results), TEXT_TOP) |-> SearchEntry(resp.results[j])])

format_search_results(resp) ==
    IF resp.results = <<>>
    THEN NO_RESULTS_FOUND_FOR \o resp.query \o TRY_DIFFERENT_KEYWORDS
    ELSE LET formatted ==
                 <<SEARCH_RESULTS_FOR \o resp.query \o HDR_OPEN \o Str(resp.total)
                       \o RESULTS_CLOSE>>
                 \o [j \in 1..Len(Slice(resp.results, TEXT_TOP)) |->
                        SearchEntry(Slice(resp.results, TEXT_TOP)[j])]
         IN  Join(NL, formatted)

NewsEntry(r) ==
    ENTRY_OPEN \o Str(r.rank) \o DOT_SP \o r.title \o ENTRY_NEWS_SOURCE
        \o Get(r, "source", UNKNOWN) \o ENTRY_NEWS_DATE \o Get(r, "date", NO_DATE_LC)
        \o ENTRY_NEWS_LINK \o r.url \o ENTRY_NEWS_DESC \o r.description \o NL

format_news_results(resp) ==
    IF resp.results = <<>>
    THEN NO_RECENT_NEWS_FOUND_FOR \o resp.query \o TRY_DIFFERENT_KEYWORDS
    ELSE LET formatted ==
                 <<RECENT_NEWS \o resp.query \o HDR_OPEN \o Str(resp.total) \o ARTICLES_CLOSE>>
                 \o [j \in 1..Len(resp.results) |-> NewsEntry(resp.results[j])]
         IN  Join(NL, formatted)

content_type_icon(ct) ==
    IF ct = PAPER THEN ICON_PAPER
    ELSE IF ct = COURSE THEN ICON_COURSE
    ELSE IF ct = TUTORIAL THEN ICON_TUTORIAL
    ELSE ICON_RESOURCE

AcademicEntry(r) ==
    ENTRY_OPEN \o Str(r.rank) \o DOT_SP \o r.title \o STARS_NL
        \o content_type_icon(Get(r, "content_type", RESOURCE)) \o SP
        \o Title(Get(r, "content_type", RESOURCE_CAP)) \o ENTRY_ACAD_LINK \o r.url
        \o ENTRY_DESC \o r.description \o NL

format_academic_results(resp) ==
    IF resp.results = <<>>
    THEN NO_ACADEMIC_RESULTS_FOUND_FOR \o resp.query \o TRY_BROADER_TERMS
    ELSE LET focus == Get(resp.results[1], "focus", GENERAL)
             formatted ==
                 <<ACADEMIC_SEARCH_HDR \o resp.query \o HDR_FOCUS \o focus \o COMMA_SP
                       \o Str(resp.total) \o RESULTS_CLOSE>>
                 \o [j \in 1..Len(resp.results) |-> AcademicEntry(resp.results[j])]
         IN  Join(NL, formatted)

(***************************************************************************)
(* The environment: callers' requests and the provider's answers.          *)
(***************************************************************************)
Requests == {1, 2}

MCP == "/mcp/call_tool"

Routes == {"/search", "/news", "/academic", MCP}

Q_ML == <<"m", "l">>

Q_AI == <<"A", "I", " ", "x">>

BOGUS_TOOL == <<"b", "o", "g", "u", "s", "_", "t", "o", "o", "l">>

\* a focus no branch of academic_search names
FOCUS_OTHER == <<"P", "a", "p", "e", "r", "s">>

Queries == {Q_ML, Q_AI}

FocusValues == {PAPERS, COURSES, TUTORIALS, GENERAL, FOCUS_OTHER}

MaxResultsValues == {1, MaxN}

\* every dict over the keys query, focus and max_results
ArgumentItems ==
    LET Q == {[query |-> q] : q \in Queries} \cup {<<>>}
        F == {[focus |-> f] : f \in FocusValues} \cup {<<>>}
        M == {[max_results |-> m] : m \in MaxResultsValues} \cup {<<>>}
    IN  {[k \in (DOMAIN q \cup DOMAIN f \cup DOMAIN m) |->
            IF k \in DOMAIN q THEN q[k] ELSE IF k \in DOMAIN f THEN f[k] ELSE m[k]] :
         q \in Q, f \in F, m \in M}

Arguments == {Dict(a) : a \in ArgumentItems} \cup {NotAMapping}

\* the bodies POSTed to /mcp/call_tool: any dict with or without name and arguments
McpBodies ==
    {[name |-> n, arguments |-> a] :
        n \in {WEB_SEARCH, NEWS_SEARCH, ACADEMIC_SEARCH, BOGUS_TOOL}, a \in Arguments}
    \cup {[arguments |-> a] : a \in Arguments}
    \cup {[name |-> n] : n \in {WEB_SEARCH, BOGUS_TOOL}}

\* the bodies of the direct routes, which FastAPI has validated against the model
DirectBodies == {a \in Arguments : a.mapping /\ "query" \in DOMAIN a.items}

Inputs ==
    {[route |-> MCP, body |-> b] : b \in McpBodies}
    \cup {[route |-> rt, body |-> b] : rt \in Routes \ {MCP}, b \in DirectBodies}

\* the requests of the concurrent workload
SmallInputs ==
    {[route |-> MCP, body |-> [name |-> n, arguments |-> Dict(a)]] :
        n \in {WEB_SEARCH, ACADEMIC_SEARCH, BOGUS_TOOL},
        a \in {[query |-> Q_ML], [query |-> Q_AI, focus |-> PAPERS], <<>>}}
    \cup {[route |-> "/news", body |-> Dict([query |-> Q_ML, max_results |-> 1])]}

HTTP == <<"h", "t", "t", "p", ":", "/", "/">>

\* raw results of ddgs.text: the keys title, href, body (any may be missing)
TextItems ==
    << [title |-> <<"I", "n", "t", "r", "o">>,
        href |-> HTTP \o <<"a", ".", "i", "o">>,
        body |-> <<"b", "a", "s", "i", "c", "s">>],
       [title |-> <<"T", "u", "t", "o", "r", "i", "a", "l", " ", "G", "u", "i", "d", "e">>,
        href |-> HTTP \o ARXIV_ORG \o <<"/", "1">>,
        body |-> <<"C", "o", "u", "r", "s", "e">>],
       [title |-> <<"M", "L", " ", "C", "o", "u", "r", "s", "e", " ", "t", "u", "t", "o",
                    "r", "i", "a", "l">>,
        href |-> HTTP \o <<"c", ".", "e", "d", "u">>,
        body |-> <<"x">>],
       [title |-> <<"A", " ", "g", "u", "i", "d", "e">>,
        href |-> HTTP \o <<"A", "R", "X", "I", "V", ".", "O", "R", "G">>,
        body |-> <<"S", "y", "l", "l", "a", "b", "u", "s", " ", "h", "e", "r", "e">>],
       [title |-> <<"G", "U", "I", "D", "E">>,
        href |-> HTTP \o <<"g", ".", "i", "o">>,
        body |-> <<"c", "o", "u", "r", "s", "e">>],
       [href |-> HTTP \o <<"n", ".", "i", "o">>],
       [title |-> <<"S", "y", "l", "l", "a", "b", "u", "s">>,
        body |-> <<"t", "u", "t", "o", "r", "i", "a", "l">>] >>

\* raw results of ddgs.news: the keys date, title, body, url, source
NewsItems ==
    << [title |-> <<"N", "e", "w", "s">>,
        url |-> HTTP \o <<"n", ".", "i", "o">>,
        body |-> <<"s", "t", "o", "r", "y">>,
        source |-> <<"B", "B", "C">>,
        date |-> <<"2", "0", "2", "4">>],
       [title |-> <<"W", "i", "r", "e">>,
        url |-> HTTP \o <<"w", ".", "i", "o">>,
        body |-> <<"b">>],
       [url |-> HTTP \o <<"z", ".", "i", "o">>,
        source |-> <<"A", "P">>] >>

\* a raw result whose title and body are longer than the limits
LongItem(kind) ==
    LET t == [i \in 1..LongTitleLen |-> LowerLetters[(i % 26) + 1]]
        b == [i \in 1..LongBodyLen |-> Digits[(i % 10) + 1]]
    IN  IF kind = "news"
        THEN [title |-> t, url |-> HTTP \o <<"l", ".", "i", "o">>, body |-> b,
              source |-> <<"A", "P">>, date |-> <<"2", "0", "2", "4">>]
        ELSE [title |-> t, href |-> HTTP \o <<"l", ".", "i", "o">>, body |-> b]

Items(kind) == IF kind = "news" THEN NewsItems ELSE TextItems

\* n raw results: the catalog from position k + 1 on, cyclically
Cycle(kind, n, k) ==
    [i \in 1..n |-> Items(kind)[((i + k - 1) % Len(Items(kind))) + 1]]

ProviderErrors ==
    {Exception("DuckDuckGoSearchException", <<"R", "a", "t", "e", "l", "i", "m", "i", "t">>)}

\* what a provider call may give back
Provided ==
    {[kind |-> kd, out |-> Raise(e)] : kd \in {"text", "news"}, e \in ProviderErrors}
    \cup {[kind |-> kd, out |-> Return(Cycle(kd, n, k))] :
            kd \in {"text", "news"}, n \in 0..MaxN, k \in {0, 3}}
    \cup {[kind |-> kd, out |-> Return([i \in 1..n |-> LongItem(kd)])] :
            kd \in {"text", "news"}, n \in {1, MaxN - 1, MaxN}}

\* the provider's answers in the concurrent workload
SmallProvided ==
    {[kind |-> kd, out |-> Raise(e)] : kd \in {"text", "news"}, e \in ProviderErrors}
    \cup {[kind |-> kd, out |-> Return(Cycle(kd, n, 0))] : kd \in {"text", "news"}, n \in {0, 2}}

(***************************************************************************)
(* The server.                                                             *)
(***************************************************************************)
NoRequest == [route |-> "", body |-> <<>>]

NoLocal == [op |-> "", req |-> <<>>]

NoCall == [calls |-> 0, kind |-> "", query |-> <<>>, max_results |-> 0,
           provided |-> Return(<<>>)]

NoResponse == [status_code |-> 0, body |-> <<>>]

\* all requests share one set of variables (module-level state instead of locals)
SharedFrame(r) == 1

\* the local variables of a handler call belong to that call
Frame(r) == r

\* the handler a direct route runs
Handler(route) ==
    IF route = "/search" THEN "web_search"
    ELSE IF route = "/news" THEN "news_search"
    ELSE "academic_search"

\* a missing name taken for web_search
BranchDefaultWeb(tool_name) ==
    IF tool_name = WEB_SEARCH \/ tool_name = None THEN "web_search"
    ELSE IF tool_name = NEWS_SEARCH THEN "news_search"
    ELSE IF tool_name = ACADEMIC_SEARCH THEN "academic_search"
    ELSE "else"

\* the branch of mcp_call_tool's if/elif chain a tool name takes
Branch(tool_name) ==
    IF tool_name = WEB_SEARCH THEN "web_search"
    ELSE IF tool_name = NEWS_SEARCH THEN "news_search"
    ELSE IF tool_name = ACADEMIC_SEARCH THEN "academic_search"
    ELSE "else"

\* str(tool_name) in the f-string of the unknown-tool message
StrName(tool_name) == IF tool_name = None THEN NONE_STR ELSE tool_name

UnknownTool(tool_name) ==
    [error |-> UNKNOWN_TOOL \o StrName(tool_name),
     available_tools |-> <<WEB_SEARCH, NEWS_SEARCH, ACADEMIC_SEARCH>>]

ToolFailed(e) == [error |-> TOOL_EXECUTION_FAILED \o StrExc(e)]

Content(text) == [content |-> <<[type |-> "text", text |-> text]>>]

\* the answer the framework gives for an exception that leaves a handler
Propagated(e) ==
    IF e.cls = "HTTPException"
    THEN [status_code |-> e.status_code, body |-> [detail |-> e.detail]]
    ELSE [status_code |-> HTTP_INTERNAL_ERROR, body |-> [uncaught |-> e]]

Model(op, arguments) ==
    IF op = "web_search" THEN SearchRequest(arguments)
    ELSE IF op = "news_search" THEN NewsRequest(arguments)
    ELSE AcademicRequest(arguments)

Operation(op, req, provided) ==
    IF op = "web_search" THEN web_search(req, provided)
    ELSE IF op = "news_search" THEN news_search(req, provided)
    ELSE academic_search(req, provided)

Format(op, resp) ==
    IF op = "web_search" THEN format_search_results(resp)
    ELSE IF op = "news_search" THEN format_news_results(resp)
    ELSE format_academic_results(resp)

Init ==
    /\ pc = [r \in Requests |-> "idle"]
    /\ request = [r \in Requests |-> NoRequest]
    /\ search_req = [r \in Requests |-> NoLocal]
    /\ ddgs = [r \in Requests |-> NoCall]
    /\ result = [r \in Requests |-> Return(<<>>)]
    /\ response = [r \in Requests |-> NoResponse]

\* a request arrives; a direct route enters its handler with the validated model
Receive(r, in) ==
    /\ pc[r] = "idle"
    /\ request' = [request EXCEPT ![r] = in]
    /\ IF in.route = MCP
       THEN /\ pc' = [pc EXCEPT ![r] = "dispatch"]
            /\ UNCHANGED search_req
       ELSE /\ pc' = [pc EXCEPT ![r] = "search"]
            /\ search_req' = [search_req EXCEPT ![Frame(r)] =
                   [op |-> Handler(in.route),
                    req |-> Model(Handler(in.route), in.body).value]]
    /\ UNCHANGED <<ddgs, result, response>>

\* mcp_call_tool up to its await: read name and arguments, build the request model
Dispatch(r) ==
    /\ pc[r] = "dispatch"
    /\ LET tool_name == Get(request[r].body, "name", None)
           arguments == Get(request[r].body, "arguments", EmptyDict)
           made == Model(Branch(tool_name), arguments)
       IN  IF Branch(tool_name) = "else"
           THEN /\ response' = [response EXCEPT ![r] =
                       [status_code |-> HTTP_OK, body |-> UnknownTool(tool_name)]]
                /\ pc' = [pc EXCEPT ![r] = "done"]
                /\ UNCHANGED search_req
           ELSE IF made.ok
           THEN /\ search_req' = [search_req EXCEPT ![Frame(r)] =
                       [op |-> Branch(tool_name), req |-> made.value]]
                /\ pc' = [pc EXCEPT ![r] = "search"]
                /\ UNCHANGED response
           ELSE /\ response' = [response EXCEPT ![r] =
                       IF ExceptException(made.exc)
                       THEN [status_code |-> HTTP_OK, body |-> ToolFailed(made.exc)]
                       ELSE Propagated(made.exc)]
                /\ pc' = [pc EXCEPT ![r] = "done"]
                /\ UNCHANGED search_req
    /\ UNCHANGED <<request, ddgs, result>>

\* the search coroutine, which runs without an await: the provider call, then the
\* shaping of what it gave back; a direct route answers, a tool call goes on
Search(r, p) ==
    /\ pc[r] = "search"
    /\ LET op == search_req[Frame(r)].op
           req == search_req[Frame(r)].req
           call == DdgsCall(op, req)
           res == Operation(op, req, p.out)
       IN  /\ p.kind = call.kind
           /\ p.out.ok => Len(p.out.value) <= call.max_results
           /\ ddgs' = [ddgs EXCEPT ![Frame(r)] =
                  [calls |-> @.calls + 1, kind |-> call.kind, query |-> call.query,
                   max_results |-> call.max_results, provided |-> p.out]]
           /\ result' = [result EXCEPT ![Frame(r)] = res]
           /\ IF request[r].route = MCP
              THEN IF res.ok
                   THEN /\ pc' = [pc EXCEPT ![r] = "render"]
                        /\ UNCHANGED response
                   ELSE /\ response' = [response EXCEPT ![r] =
                               IF ExceptException(res.exc)
                               THEN [status_code |-> HTTP_OK, body |-> ToolFailed(res.exc)]
                               ELSE Propagated(res.exc)]
                        /\ pc' = [pc EXCEPT ![r] = "done"]
              ELSE /\ response' = [response EXCEPT ![r] =
                          IF res.ok THEN [status_code |-> HTTP_OK, body |-> res.value]
                          ELSE Propagated(res.exc)]
                   /\ pc' = [pc EXCEPT ![r] = "done"]
    /\ UNCHANGED <<request, search_req>>

\* mcp_call_tool after its await: render the structured result as text
Render(r) ==
    /\ pc[r] = "render"
    /\ response' = [response EXCEPT ![r] =
           [status_code |-> HTTP_OK,
            body |-> Content(Format(search_req[Frame(r)].op, result[Frame(r)].value))]]
    /\ pc' = [pc EXCEPT ![r] = "done"]
    /\ UNCHANGED <<request, search_req, ddgs, result>>

\* the answer is sent; the handler call and its local variables are gone
Deliver(r) ==
    /\ pc[r] = "done"
    /\ pc' = [pc EXCEPT ![r] = "idle"]
    /\ request' = [request EXCEPT ![r] = NoRequest]
    /\ search_req' = [search_req EXCEPT ![Frame(r)] = NoLocal]
    /\ ddgs' = [ddgs EXCEPT ![Frame(r)] = NoCall]
    /\ result' = [result EXCEPT ![Frame(r)] = Return(<<>>)]
    /\ response' = [response EXCEPT ![r] = NoResponse]

ReceiveAny == \E in \in Inputs : Receive(1, in)

DispatchOne == Dispatch(1)

SearchAny == \E p \in Provided : Search(1, p)

RenderOne == Render(1)

DeliverOne == Deliver(1)

\* one request at a time, every input
Next == ReceiveAny \/ DispatchOne \/ SearchAny \/ RenderOne \/ DeliverOne

Spec == Init /\ [][Next]_vars

ReceiveSome == \E r \in Requests : \E in \in SmallInputs : Receive(r, in)

DispatchSome == \E r \in Requests : Dispatch(r)

SearchSome == \E r \in Requests : \E p \in SmallProvided : Search(r, p)

RenderSome == \E r \in Requests : Render(r)

DeliverSome == \E r \in Requests : Deliver(r)

\* two requests in flight, interleaved at the awaits
NextConc == ReceiveSome \/ DispatchSome \/ SearchSome \/ RenderSome \/ DeliverSome

SpecConc == Init /\ [][NextConc]_vars

(***************************************************************************)
(* What a request was asked and what it was given, read off the state.     *)
(***************************************************************************)
Known == {WEB_SEARCH, NEWS_SEARCH, ACADEMIC_SEARCH}

IsTool(r) == request[r].route = MCP

NameOf(r) == Get(request[r].body, "name", None)

ArgsOf(r) == IF IsTool(r) THEN Get(request[r].body, "arguments", EmptyDict) ELSE request[r].body

\* the provider was called for r and returned a list
Answered(r) == ddgs[r].calls > 0 /\ ddgs[r].provided.ok

\* the provider was called for r and raised
Failed(r) == ddgs[r].calls > 0 /\ ~ddgs[r].provided.ok

Raw(r) == ddgs[r].provided.value

UrlKey(r) == IF ddgs[r].kind = "news" THEN "url" ELSE "href"

IsText(r) == pc[r] = "done" /\ IsTool(r) /\ "content" \in DOMAIN response[r].body

TextOf(r) == response[r].body.content[1].text

\* C1: in each of the three search operations a provider list of length N gives a
\* response of exactly N records, the i-th built from the i-th provider result with
\* rank i, and total = N; a direct route answers with that response.
C1_DenseRanks ==
    \A r \in Requests :
        Answered(r) =>
            /\ result[r].ok
            /\ Len(result[r].value.results) = Len(Raw(r))
            /\ result[r].value.total = Len(Raw(r))
            /\ \A i \in 1..Len(Raw(r)) :
                  /\ result[r].value.results[i].rank = i
                  /\ result[r].value.results[i].url = Get(Raw(r)[i], UrlKey(r), NO_URL)
            /\ (pc[r] = "done" /\ ~IsTool(r)) =>
                  /\ response[r].status_code = 200
                  /\ response[r].body = result[r].value

C1_Witness ==
    \E r \in Requests :
        /\ pc[r] = "done" /\ ~IsTool(r) /\ Answered(r)
        /\ search_req[r].op = "academic_search"
        /\ Len(Raw(r)) = MaxN
        /\ result[r].value.results[MaxN].rank = MaxN
        /\ Raw(r)[1] # Raw(r)[2]

\* the marker that opens the i-th entry of a rendered text
EntryMarker(i) == NL \o ENTRY_OPEN \o Str(i) \o DOT_SP

\* the number of entries a rendered text holds
EntryCount(text) ==
    Cardinality({i \in 1..(Len(text) - 3) : SubSeq(text, i, i + 3) = NL \o ENTRY_OPEN})

\* C2: a tool call whose provider returned N results (N <= max_results) renders
\* exactly N entries numbered 1..N, and the count in the header is the number of
\* entries rendered.
C2_AllEntriesRendered ==
    \A r \in Requests :
        (IsText(r) /\ Answered(r)) =>
            LET N == Len(Raw(r)) IN
            /\ EntryCount(TextOf(r)) = N
            /\ \A i \in 1..N : Contains(EntryMarker(i), TextOf(r))
            /\ N > 0 => Contains(<<"(">> \o Str(EntryCount(TextOf(r))) \o SP, TextOf(r))
                        \/ Contains(COMMA_SP \o Str(EntryCount(TextOf(r))) \o SP, TextOf(r))

\* C3: a provider exception, or malformed tool arguments, ends in an error message:
\* a direct route answers 500 with the message as detail, a tool call answers a
\* payload with an error field and no content field; nothing is left uncaught.
C3_ErrorsSurfaced ==
    \A r \in Requests :
        LET malformed == /\ IsTool(r) /\ NameOf(r) \in Known
                         /\ (~ArgsOf(r).mapping \/ "query" \notin DOMAIN ArgsOf(r).items)
        IN  /\ (malformed /\ pc[r] = "search") => FALSE
            /\ (pc[r] = "done" /\ (Failed(r) \/ malformed)) =>
                  /\ "uncaught" \notin DOMAIN response[r].body
                  /\ "results" \notin DOMAIN response[r].body
                  /\ IF IsTool(r)
                     THEN /\ "error" \in DOMAIN response[r].body
                          /\ "content" \notin DOMAIN response[r].body
                     ELSE /\ response[r].status_code = 500
                          /\ "detail" \in DOMAIN response[r].body
                          /\ Contains(ddgs[r].provided.exc.detail, response[r].body.detail)
            /\ (Failed(r) /\ pc[r] = "render") => FALSE

C3_Witness ==
    \E r \in Requests :
        /\ pc[r] = "done" /\ IsTool(r) /\ Failed(r)
        /\ "error" \in DOMAIN response[r].body

\* C4: a tool call whose name is none of the three tools (or is missing) answers,
\* whatever its arguments, the unknown-tool message naming the tool and listing the
\* three valid names; the provider is not called.
C4_UnknownTool ==
    \A r \in Requests :
        (IsTool(r) /\ NameOf(r) \notin Known) =>
            /\ pc[r] \in {"dispatch", "done"}
            /\ ddgs[r].calls = 0
            /\ pc[r] = "done" =>
                  /\ response[r].status_code = 200
                  /\ DOMAIN response[r].body = {"error", "available_tools"}
                  /\ response[r].body.error =
                         UNKNOWN_TOOL \o (IF "name" \in DOMAIN request[r].body
                                          THEN request[r].body.name ELSE NONE_STR)
                  /\ response[r].body.available_tools =
                         <<WEB_SEARCH, NEWS_SEARCH, ACADEMIC_SEARCH>>

C4_Witness ==
    \E r \in Requests :
        /\ pc[r] = "done" /\ IsTool(r)
        /\ "name" \notin DOMAIN request[r].body
        /\ ~ArgsOf(r).mapping
        /\ response[r].body.error = UNKNOWN_TOOL \o NONE_STR

\* the fixed no-results message of each tool around the query
NoResultsMessage(op, query) ==
    IF op = "web_search" THEN NO_RESULTS_FOUND_FOR \o query \o TRY_DIFFERENT_KEYWORDS
    ELSE IF op = "news_search" THEN NO_RECENT_NEWS_FOUND_FOR \o query \o TRY_DIFFERENT_KEYWORDS
    ELSE NO_ACADEMIC_RESULTS_FOUND_FOR \o query \o TRY_BROADER_TERMS

\* C5: when the provider returns the empty list, a tool call answers the fixed
\* no-results message around the caller's query (no header, no error), and the
\* structured response is results = [], total = 0, query = the caller's query.
C5_EmptyIsNoResults ==
    \A r \in Requests :
        (Answered(r) /\ Raw(r) = <<>>) =>
            /\ result[r] = Return([results |-> <<>>, total |-> 0,
                                   query |-> ArgsOf(r).items.query])
            /\ pc[r] = "done" =>
                  IF IsTool(r)
                  THEN /\ DOMAIN response[r].body = {"content"}
                       /\ TextOf(r) = NoResultsMessage(search_req[r].op, ArgsOf(r).items.query)
                       /\ Contains(<<"f", "o", "u", "n", "d", " ", "f", "o", "r", " ", "'">>
                                       \o ArgsOf(r).items.query \o <<"'">>, TextOf(r))
                       /\ ~Contains(<<"*", "*">>, TextOf(r))
                  ELSE /\ response[r].status_code = 200
                       /\ response[r].body = [results |-> <<>>, total |-> 0,
                                              query |-> ArgsOf(r).items.query]

C5_Witness ==
    \E r \in Requests :
        /\ IsText(r) /\ Answered(r) /\ Raw(r) = <<>>
        /\ search_req[r].op = "web_search"
        /\ TextOf(r) = NO_RESULTS_FOUND_FOR \o Q_AI \o TRY_DIFFERENT_KEYWORDS

\* the filter suffix the claim assigns to a focus value
FilterFor(focus) ==
    CASE focus = PAPERS -> PAPERS_FILTER
      [] focus = COURSES -> COURSES_FILTER
      [] focus = TUTORIALS -> TUTORIALS_FILTER
      [] OTHER -> GENERAL_FILTER

\* C6: academic_search sends the provider the raw query followed by exactly one
\* filter suffix chosen by focus (papers, courses, tutorials; general and any other
\* value take the generic filter); the raw query is kept as a prefix and the
\* response echoes the raw query.
C6_OneFilterSuffix ==
    \A r \in Requests :
        (ddgs[r].calls > 0 /\ search_req[r].op = "academic_search") =>
            LET raw == ArgsOf(r).items.query
                focus == Get(ArgsOf(r).items, "focus", GENERAL)
                sent == ddgs[r].query
            IN  /\ Len(sent) = Len(raw) + Len(FilterFor(focus))
                /\ SubSeq(sent, 1, Len(raw)) = raw
                /\ SubSeq(sent, Len(raw) + 1, Len(sent)) = FilterFor(focus)
                /\ focus \notin {PAPERS, COURSES, TUTORIALS} =>
                      SubSeq(sent, Len(raw) + 1, Len(sent)) = GENERAL_FILTER
                /\ result[r].ok => result[r].value.query = raw

C6_Witness ==
    \E r \in Requests :
        /\ ddgs[r].calls > 0 /\ search_req[r].op = "academic_search"
        /\ Get(ArgsOf(r).items, "focus", GENERAL) = FOCUS_OTHER
        /\ ddgs[r].query = Q_AI \o GENERAL_FILTER
        /\ result[r].ok /\ result[r].value.query = Q_AI

\* C7: academic_search gives every result exactly one content type, the first that
\* matches in the order: url contains "arxiv.org" -> paper; else title (lowered)
\* contains "course" or body (lowered) contains "syllabus" -> course; else title
\* (lowered) contains "tutorial" or "guide" -> tutorial; else resource.
C7_FirstMatchWins ==
    \A r \in Requests :
        (Answered(r) /\ search_req[r].op = "academic_search") =>
            \A i \in 1..Len(Raw(r)) :
                LET ct == result[r].value.results[i].content_type
                    url == Get(Raw(r)[i], "href", NO_URL)
                    title == Lower(Get(Raw(r)[i], "title", NO_TITLE))
                    body == Lower(Get(Raw(r)[i], "body", <<>>))
                    isPaper == Contains(ARXIV_ORG, url)
                    isCourse == Contains(COURSE, title) \/ Contains(SYLLABUS, body)
                    isTutorial == Contains(TUTORIAL, title) \/ Contains(GUIDE, title)
                IN  /\ ct \in {PAPER, COURSE, TUTORIAL, RESOURCE}
                    /\ isPaper => ct = PAPER
                    /\ (~isPaper /\ isCourse) => ct = COURSE
                    /\ (~isPaper /\ ~isCourse /\ isTutorial) => ct = TUTORIAL
                    /\ (~isPaper /\ ~isCourse /\ ~isTutorial) => ct = RESOURCE

C7_Witness ==
    \E r \in Requests :
        /\ Answered(r) /\ search_req[r].op = "academic_search" /\ Len(Raw(r)) >= 5
        /\ Contains(ARXIV_ORG, Raw(r)[2].href) /\ Contains(TUTORIAL, Lower(Raw(r)[2].title))
        /\ result[r].value.results[2].content_type = PAPER
        /\ Contains(COURSE, Lower(Raw(r)[3].title)) /\ Contains(TUTORIAL, Lower(Raw(r)[3].title))
        /\ result[r].value.results[3].content_type = COURSE
        /\ Contains(GUIDE, Lower(Raw(r)[4].title)) /\ Contains(SYLLABUS, Lower(Raw(r)[4].body))
        /\ result[r].value.results[4].content_type = COURSE
        /\ result[r].value.results[5].content_type = TUTORIAL
        /\ result[r].value.results[1].content_type = RESOURCE

\* C8: in every record of every search operation the title is the first
\* min(len, 150) characters of the raw title, the description the first
\* min(len, 400) characters of the raw body, and the url the provider's url.
C8_Truncation ==
    \A r \in Requests :
        Answered(r) =>
            \A i \in 1..Len(Raw(r)) :
                LET rec == result[r].value.results[i]
                    title == Get(Raw(r)[i], "title", NO_TITLE)
                    body == Get(Raw(r)[i], "body",
                                IF ddgs[r].kind = "news" THEN NO_SUMMARY ELSE NO_DESCRIPTION)
                IN  /\ Len(rec.title) = Min(Len(title), 150)
                    /\ Len(rec.title) <= 150
                    /\ rec.title = SubSeq(title, 1, Len(rec.title))
                    /\ Len(rec.description) = Min(Len(body), 400)
                    /\ Len(rec.description) <= 400
                    /\ rec.description = SubSeq(body, 1, Len(rec.description))
                    /\ rec.url = Get(Raw(r)[i], UrlKey(r), NO_URL)

C8_Witness ==
    \E r \in Requests :
        /\ Answered(r) /\ Len(Raw(r)) >= 1
        /\ Len(Raw(r)[1].title) = LongTitleLen
        /\ Len(result[r].value.results[1].title) = 150
        /\ Len(Raw(r)[1].body) > 400
        /\ Len(result[r].value.results[1].description) = 400

\* C9: the text a tool call returns is never longer than 4000 characters.
C9_TextBudget ==
    \A r \in Requests : IsText(r) => Len(TextOf(r)) <= 4000

\* C10: requests are independent: a step of one request changes nothing that
\* belongs to another, and two requests with the same body whose provider calls
\* gave the same answer get the same response, whatever else was in flight.
C10_NoInterference ==
    [][\A r \in Requests :
          pc'[r] = pc[r] =>
              /\ request'[r] = request[r]
              /\ search_req'[r] = search_req[r]
              /\ ddgs'[r] = ddgs[r]
              /\ result'[r] = result[r]
              /\ response'[r] = response[r]]_vars

C10_Determined ==
    \A r, s \in Requests :
        (pc[r] = "done" /\ pc[s] = "done" /\ request[r] = request[s] /\ ddgs[r] = ddgs[s])
            => response[r] = response[s]

C10_Independent == []C10_Determined /\ C10_NoInterference

C10_Witness ==
    /\ pc[1] = "done" /\ pc[2] = "done"
    /\ Failed(1) /\ "error" \in DOMAIN response[1].body
    /\ Answered(2) /\ IsText(2) /\ Len(Raw(2)) = 2
    /\ request[1].body.arguments # request[2].body.arguments

====
